---- MODULE Spec2Model ----
(***************************************************************************)
(* Model of the doc-to-jira client (src/doc_to_jira.py): configuration     *)
(* validation, connection with retry and exponential backoff, issue input  *)
(* validation, issue creation with retry and exponential backoff, the two  *)
(* probes, and of the batch processor run_jira_from_json                   *)
(* (src/main_jira.py), which builds a client and turns the entries of a    *)
(* JSON list into issues.                                                  *)
(*                                                                         *)
(* A Python str is a sequence of one-character strings, None is the        *)
(* sentinel NoneVal.  The remote Jira service is an opaque collaborator:   *)
(* every call to it either returns a value or raises a cause, chosen       *)
(* nondeterministically.                                                   *)
(***************************************************************************)
EXTENDS Integers, Sequences, FiniteSets

(* ------------------------------ bounds --------------------------------- *)

\* largest max_retries the constructor is given
MaxRetries == 3
\* largest retry_delay (in whole time units) the constructor is given
MaxDelay == 2
\* most whitespace characters put before / after the body of an input text
MaxPad == 1

(* ------------------------- program constants --------------------------- *)

\* Jira summary limit
SummaryLimit == 255

(* ------------------------------- state --------------------------------- *)

VARIABLES
    environ,        \* os.environ restricted to the four JIRA_* names
    max_retries,    \* self.max_retries
    retry_delay,    \* self.retry_delay
    creds,          \* self.jira_base_url, jira_email, jira_api_token, jira_project_key
    jira_client,    \* self.jira_client: "unset", a handle, or "None"
    pc,             \* where the client is: "new", "connect", "connect_sleep",
                    \* "init_raised", "ready", "create", "create_sleep"
    op,             \* the call that log and outcome belong to
    attempt,        \* the loop variable of the running retry loop
    args,           \* the arguments of the create_jira_issue call
    log,            \* what the call did, in order: attempts on the service and sleeps
    outcome,        \* how the call ended: nothing yet, a return value, an exception
    connect_calls,  \* how many times JIRA(...) has been invoked
    connect_trace,  \* the attempts and sleeps of _connect_to_jira, without
                    \* the values the service gave
    sent,           \* the fields of every create_issue(fields=...) call of
                    \* the running create_jira_issue call
    run,            \* where run_jira_from_json is: "none" (not called),
                    \* "client", "probe", "project", "read", "loop",
                    \* "entry", "returned"; in the __main__ block also
                    \* "validate" and "not_started"
    user_stories,   \* what json.load returned, once the file has been read
    entry_no,       \* the loop variable i of run_jira_from_json
    results,        \* the results dict of run_jira_from_json
    submitted,      \* the create_jira_issue calls of the run: entry, request
    caught,         \* the exception the outer handlers of the run caught
    create_issue_calls, \* the create_issue calls the run has made on the
                    \* service: how many, and the entry of each one that
                    \* returned
    preflight       \* the __main__ block: what the input file holds, and the
                    \* valid_entries and the return value of
                    \* validate_json_structure once it has been called

vars == <<environ, max_retries, retry_delay, creds, jira_client, pc, op,
          attempt, args, log, outcome, connect_calls, connect_trace, sent,
          run, user_stories, entry_no, results, submitted, caught,
          create_issue_calls, preflight>>

\* the state of run_jira_from_json
batch == <<run, user_stories, entry_no, results, submitted, caught,
           create_issue_calls, preflight>>

config == <<environ, max_retries, retry_delay>>

(* ----------------------------- Python values --------------------------- *)

NoneVal == <<"<None>">>

Space == " "

\* A text of n copies of the character c.
Rep(c, n) == [i \in 1..n |-> c]

\* Python truthiness of an Optional[str]: None and "" are falsy.
Falsy(v) == v = NoneVal \/ v = <<>>

\* str.strip(): drop leading and trailing whitespace.
strip(s) ==
    IF \A i \in 1..Len(s) : s[i] = Space THEN <<>>
    ELSE LET lo == CHOOSE i \in 1..Len(s) :
                       s[i] # Space /\ \A j \in 1..(i - 1) : s[j] = Space
             hi == CHOOSE i \in 1..Len(s) :
                       s[i] # Space /\ \A j \in (i + 1)..Len(s) : s[j] = Space
         IN  SubSeq(s, lo, hi)

RECURSIVE Pow2(_)
\* 2 ** n
Pow2(n) == IF n <= 0 THEN 1 ELSE 2 * Pow2(n - 1)

Range(s) == {s[i] : i \in 1..Len(s)}

(* ------------------------------ inputs --------------------------------- *)

EnvNames == <<"JIRA_BASE_URL", "JIRA_EMAIL", "JIRA_API_TOKEN", "JIRA_PROJECT_KEY">>

\* what os.getenv can give for one variable: absent, empty, a value
EnvValues == {NoneVal, <<>>, <<"x">>}

Environments == [Range(EnvNames) -> EnvValues]

RetryPolicyRetries == 0..MaxRetries

RetryDelays == 1..MaxDelay

Padded(lead, body, trail) == Rep(Space, lead) \o body \o Rep(Space, trail)

Paddings(body) == {Padded(l, body, t) : l \in 0..MaxPad, t \in 0..MaxPad}

\* summaries: blank ones, short ones, and ones whose trimmed length is at and
\* just above the limit, each with and without surrounding whitespace
SummaryInputs ==
    UNION {Paddings(Rep("a", n)) : n \in {0, 1, SummaryLimit, SummaryLimit + 1}}

DescriptionInputs == {<<>>, <<Space>>, <<"d">>, <<Space, "d", Space>>}

IssueTypeInputs == {<<>>, <<Space>>, <<"B", "u", "g">>, <<Space, "B", "u", "g">>}

\* the requests the validator is applied to
IssueRequests ==
    [summary : SummaryInputs, description : DescriptionInputs,
     issuetype : IssueTypeInputs]

\* the requests create_jira_issue is called with: every validation rule is
\* violated by some of them, alone and together with the others
CallRequests ==
    [summary : {<<>>, Padded(1, <<"a">>, 1), Rep("a", SummaryLimit + 1)},
     description : {<<>>, <<Space, "d", Space>>},
     issuetype : {<<>>, <<"B", "u", "g">>}]

\* failures the service can answer an attempt with
Causes == {"timeout", "refused"}

\* connection handles JIRA(...) can return
Handles == {"jiraA", "jiraB"}

\* issue keys create_issue can return
IssueKeys == {"TEST-1", "TEST-2"}

\* the users current_user() returns
Users == {"me"}

\* an attribute a fetched project does not have
Missing == "<no attribute>"

\* a project with every attribute; lead is the lead object ("None" for a
\* project without lead), displayName the attribute of that object
FullProject ==
    [key |-> "TEST", name |-> "Test Project", description |-> "About",
     lead |-> "user", displayName |-> "Ann"]

\* the projects project(key) returns
Projects ==
    {FullProject,
     [FullProject EXCEPT !.key = Missing],
     [FullProject EXCEPT !.name = Missing],
     [FullProject EXCEPT !.description = Missing],
     [FullProject EXCEPT !.lead = Missing],
     [FullProject EXCEPT !.lead = "None"],
     [FullProject EXCEPT !.displayName = Missing]}

(* --------------------------- pure functions ---------------------------- *)

\* mutant: the check stops at the first missing variable
missing_vars_first(cfg) ==
    LET all == SelectSeq(EnvNames, LAMBDA name : Falsy(cfg[name]))
    IN  IF all = <<>> THEN <<>> ELSE <<all[1]>>

\* DocToJira._validate_configuration: the names of the missing variables,
\* in the order the code tests them (empty when the configuration is valid).
missing_vars(cfg) ==
    SelectSeq(EnvNames, LAMBDA name : Falsy(cfg[name]))

JiraConfigurationError(missing) ==
    [type |-> "JiraConfigurationError", missing |-> missing]

\* mutant: the limit is applied to the summary as given, not trimmed
summary_errors_untrimmed(summary) ==
    IF Falsy(summary) \/ strip(summary) = <<>>
    THEN <<"Summary cannot be empty">>
    ELSE IF Len(summary) > SummaryLimit
         THEN <<"Summary cannot exceed 255 characters">>
         ELSE <<>>

\* DocToJira._validate_issue_input, the summary rules (`if ... elif ...`)
summary_errors(summary) ==
    IF Falsy(summary) \/ strip(summary) = <<>>
    THEN <<"Summary cannot be empty">>
    ELSE IF Len(strip(summary)) > SummaryLimit
         THEN <<"Summary cannot exceed 255 characters">>
         ELSE <<>>

\* DocToJira._validate_issue_input, the description rule
description_errors(description) ==
    IF Falsy(description) \/ strip(description) = <<>>
    THEN <<"Description cannot be empty">>
    ELSE <<>>

\* mutant: the issue type is not checked
issuetype_errors_none(issuetype) == <<>>

\* DocToJira._validate_issue_input, the issue type rule
issuetype_errors(issuetype) ==
    IF Falsy(issuetype) \/ strip(issuetype) = <<>>
    THEN <<"Issue type cannot be empty">>
    ELSE <<>>

\* mutant: the validation stops at the first violated rule
_validate_issue_input_first(summary, description, issuetype) ==
    IF summary_errors(summary) # <<>> THEN summary_errors(summary)
    ELSE IF description_errors(description) # <<>>
         THEN description_errors(description)
         ELSE issuetype_errors(issuetype)

\* DocToJira._validate_issue_input: the list `errors`, in the order the rules
\* are tested
_validate_issue_input(summary, description, issuetype) ==
    summary_errors(summary) \o description_errors(description)
        \o issuetype_errors(issuetype)

JiraValidationError(errors) ==
    [type |-> "JiraValidationError", errors |-> errors]

\* the terminal errors of the two retry loops: the message states the number
\* of attempts and the failure of the attempt that raised it (`from e`)
\* mutant: the error wraps the failure of the first attempt
JiraConnectionError_first_cause(attempts, e) ==
    LET tried == SelectSeq(log, LAMBDA x : x.ev = "attempt")
    IN  [type |-> "JiraConnectionError", attempts |-> attempts,
         cause |-> IF tried = <<>> THEN e ELSE tried[1].val]

JiraConnectionError(attempts, e) ==
    [type |-> "JiraConnectionError", attempts |-> attempts, cause |-> e]

JiraIssueCreationError(attempts, e) ==
    [type |-> "JiraIssueCreationError", attempts |-> attempts, cause |-> e]

\* mutant: the delay grows linearly
backoff_delay_linear(delay0, k) == delay0 * (k + 1)

\* delay = self.retry_delay * (2 ** attempt)
backoff_delay(delay0, k) == delay0 * Pow2(k)

\* mutant: the last retry is not made
should_retry_one_short(k, retries) == k + 1 < retries

\* mutant: the last failure is retried too
should_retry_inclusive(k, retries) == k <= retries

\* `if attempt < self.max_retries`: another attempt follows this failure
should_retry(k, retries) == k < retries

\* `for attempt in range(self.max_retries + 1)`: i is a value of the range
in_range(i, retries) == 0 <= i /\ i < retries + 1

\* the attempt count the terminal error message states
attempts_stated(retries) == retries + 1

(* --------------------------- values of the state ----------------------- *)

NoValue == "None"

NoArgs == [summary |-> NoneVal, description |-> NoneVal, issuetype |-> NoneVal]

Pending == [kind |-> "none"]
Returned(v) == [kind |-> "return", val |-> v]
Raised(e) == [kind |-> "raise", exc |-> e]

Succeeded(v) == [ev |-> "attempt", ok |-> TRUE, val |-> v]
Failed(e) == [ev |-> "attempt", ok |-> FALSE, val |-> e]
Slept(d) == [ev |-> "sleep", delay |-> d]

\* the attempts and sleeps of a log without the values the service gave
Shape(l) ==
    [n \in 1..Len(l) |-> IF l[n].ev = "attempt"
                         THEN [ev |-> "attempt", ok |-> l[n].ok]
                         ELSE l[n]]

\* the results dict at the start of run_jira_from_json
NoResults ==
    [created_issues |-> <<>>, failed_issues |-> <<>>, skipped_issues |-> <<>>]

\* the __main__ block is not running
NoPreflight ==
    [file |-> [kind |-> "none", list |-> <<>>], valid_entries |-> 0,
     valid |-> "None"]

\* no create_issue call has been made
NoCalls == [made |-> 0, returned |-> <<>>]

\* the calls after one more create_issue call, made for the entry numbered
\* n, that returned or raised
ServiceCall(calls, n, returned) ==
    [made |-> calls.made + 1,
     returned |-> IF returned THEN Append(calls.returned, n)
                  ELSE calls.returned]

\* run_jira_from_json has not been called
NoBatch ==
    /\ run = "none"
    /\ user_stories = <<>>
    /\ entry_no = 0
    /\ results = NoResults
    /\ submitted = <<>>
    /\ caught = NoValue
    /\ create_issue_calls = NoCalls
    /\ preflight = NoPreflight

\* the client when DocToJira(max_retries, retry_delay) is called, for the
\* retry counts of the set Retries and the delays of the set Delays
NewClient(Retries, Delays) ==
    /\ environ \in Environments
    /\ max_retries \in Retries
    /\ retry_delay \in Delays
    /\ creds = [name \in Range(EnvNames) |-> NoneVal]
    /\ jira_client = "unset"
    /\ pc = "new"
    /\ op = "none"
    /\ attempt = 0
    /\ args = NoArgs
    /\ log = <<>>
    /\ outcome = Pending
    /\ connect_calls = 0
    /\ connect_trace = <<>>
    /\ sent = <<>>

\* the state when DocToJira(max_retries, retry_delay) is called, for the
\* retry counts of the set Retries
InitWith(Retries) == NewClient(Retries, RetryDelays) /\ NoBatch

Init == InitWith(RetryPolicyRetries)

(* ------------------------------ actions -------------------------------- *)

\* mutant: the configuration error is logged but not raised
Construct_no_raise ==
    /\ pc = "new"
    /\ creds' = [name \in Range(EnvNames) |-> environ[name]]
    /\ op' = "__init__"
    /\ pc' = "connect"
    /\ attempt' = 0
    /\ UNCHANGED <<config, jira_client, args, log, outcome, connect_calls, connect_trace,
                   sent>>

\* DocToJira.__init__ up to the first connection attempt: store the policy,
\* load the environment, validate it, enter the loop of _connect_to_jira.
Construct ==
    /\ pc = "new"
    /\ creds' = [name \in Range(EnvNames) |-> environ[name]]
    /\ op' = "__init__"
    /\ LET missing == missing_vars(creds')
       IN  IF missing # <<>>
           THEN /\ outcome' = Raised(JiraConfigurationError(missing))
                /\ pc' = "init_raised"
                /\ UNCHANGED jira_client
           ELSE IF in_range(0, max_retries)
                THEN /\ pc' = "connect"
                     /\ UNCHANGED <<outcome, jira_client>>
                ELSE \* the loop body never runs: the function returns None
                     /\ jira_client' = NoValue
                     /\ outcome' = Returned(NoValue)
                     /\ pc' = "ready"
    /\ attempt' = 0
    /\ UNCHANGED <<config, args, log, connect_calls, connect_trace, sent>>

\* one attempt of _connect_to_jira that succeeds: JIRA(...) returns a handle,
\* which __init__ stores in self.jira_client
ConnectSucceeds ==
    /\ pc = "connect"
    /\ \E h \in Handles :
        /\ log' = Append(log, Succeeded(h))
        /\ jira_client' = h
        /\ outcome' = Returned(h)
    /\ connect_calls' = connect_calls + 1
    /\ connect_trace' = Shape(log')
    /\ pc' = "ready"
    /\ UNCHANGED <<config, creds, op, attempt, args, sent>>

\* one attempt of _connect_to_jira that fails: retry after a sleep, or raise
ConnectFails ==
    /\ pc = "connect"
    /\ \E e \in Causes :
        /\ log' = Append(log, Failed(e))
        /\ IF should_retry(attempt, max_retries)
           THEN /\ pc' = "connect_sleep"
                /\ UNCHANGED outcome
           ELSE /\ pc' = "init_raised"
                /\ outcome' = Raised(JiraConnectionError(attempts_stated(max_retries), e))
    /\ connect_calls' = connect_calls + 1
    /\ connect_trace' = Shape(log')
    /\ UNCHANGED <<config, creds, jira_client, op, attempt, args, sent>>

\* mutant: the delay of the connection loop grows linearly
ConnectSleeps_linear ==
    /\ pc = "connect_sleep"
    /\ log' = Append(log, Slept(backoff_delay_linear(retry_delay, attempt)))
    /\ attempt' = attempt + 1
    /\ IF in_range(attempt + 1, max_retries)
       THEN /\ pc' = "connect"
            /\ UNCHANGED <<outcome, jira_client>>
       ELSE /\ jira_client' = NoValue
            /\ outcome' = Returned(NoValue)
            /\ pc' = "ready"
    /\ connect_trace' = Shape(log')
    /\ UNCHANGED <<config, creds, op, args, connect_calls, sent>>

\* time.sleep(delay) in _connect_to_jira, then the next value of the range
ConnectSleeps ==
    /\ pc = "connect_sleep"
    /\ log' = Append(log, Slept(backoff_delay(retry_delay, attempt)))
    /\ attempt' = attempt + 1
    /\ IF in_range(attempt + 1, max_retries)
       THEN /\ pc' = "connect"
            /\ UNCHANGED <<outcome, jira_client>>
       ELSE /\ jira_client' = NoValue
            /\ outcome' = Returned(NoValue)
            /\ pc' = "ready"
    /\ connect_trace' = Shape(log')
    /\ UNCHANGED <<config, creds, op, args, connect_calls, sent>>

\* mutant: the fields are submitted as they were given
issue_fields_untrimmed(request) ==
    [project |-> creds["JIRA_PROJECT_KEY"],
     summary |-> request.summary,
     description |-> request.description,
     issuetype |-> request.issuetype]

\* the issue_fields dict of create_jira_issue
issue_fields(request) ==
    [project |-> creds["JIRA_PROJECT_KEY"],
     summary |-> strip(request.summary),
     description |-> strip(request.description),
     issuetype |-> strip(request.issuetype)]

\* mutant: the call goes on counting where the last retry loop stopped
create_jira_issue_keeps_attempt(request) ==
    /\ pc = "ready"
    /\ args' = request
    /\ LET errors == _validate_issue_input(request.summary,
                          request.description, request.issuetype)
       IN  IF errors # <<>>
           THEN /\ outcome' = Raised(JiraValidationError(errors))
                /\ pc' = "ready"
           ELSE IF in_range(0, max_retries)
                THEN /\ outcome' = Pending
                     /\ pc' = "create"
                ELSE /\ outcome' = Returned(NoValue)
                     /\ pc' = "ready"
    /\ op' = "create_jira_issue"
    /\ log' = <<>>
    /\ sent' = <<>>
    /\ UNCHANGED <<config, creds, jira_client, attempt, connect_calls,
                   connect_trace>>

\* create_jira_issue(summary, description, issuetype) up to the first
\* attempt: validate the input, build the fields, enter the retry loop
create_jira_issue(request) ==
    /\ pc = "ready"
    /\ args' = request
    /\ LET errors == _validate_issue_input(request.summary,
                          request.description, request.issuetype)
       IN  IF errors # <<>>
           THEN /\ outcome' = Raised(JiraValidationError(errors))
                /\ pc' = "ready"
           ELSE IF in_range(0, max_retries)
                THEN /\ outcome' = Pending
                     /\ pc' = "create"
                ELSE /\ outcome' = Returned(NoValue)
                     /\ pc' = "ready"
    /\ op' = "create_jira_issue"
    /\ attempt' = 0
    /\ log' = <<>>
    /\ sent' = <<>>
    /\ UNCHANGED <<config, creds, jira_client, connect_calls, connect_trace>>

\* a caller of the client calls create_jira_issue with a request
CreateCall == \E request \in CallRequests : create_jira_issue(request)

\* mutant: the successful attempt does not return, the loop goes on
CreateSucceeds_no_return ==
    /\ pc = "create"
    /\ sent' = Append(sent, issue_fields(args))
    /\ \E k \in IssueKeys : log' = Append(log, Succeeded(k))
    /\ attempt' = attempt + 1
    /\ IF in_range(attempt + 1, max_retries)
       THEN /\ pc' = "create"
            /\ UNCHANGED outcome
       ELSE /\ outcome' = Returned(NoValue)
            /\ pc' = "ready"
    /\ UNCHANGED <<config, creds, jira_client, op, args, connect_calls, connect_trace>>

\* one attempt of create_jira_issue that succeeds: the issue key is returned
CreateSucceeds ==
    /\ pc = "create"
    /\ sent' = Append(sent, issue_fields(args))
    /\ \E k \in IssueKeys :
        /\ log' = Append(log, Succeeded(k))
        /\ outcome' = Returned(k)
    /\ pc' = "ready"
    /\ UNCHANGED <<config, creds, jira_client, op, attempt, args, connect_calls, connect_trace>>

\* mutant: a call that used all its attempts connects again
CreateFails_reconnects ==
    /\ pc = "create"
    /\ sent' = Append(sent, issue_fields(args))
    /\ \E e \in Causes :
        /\ log' = Append(log, Failed(e))
        /\ IF should_retry(attempt, max_retries)
           THEN /\ pc' = "create_sleep"
                /\ UNCHANGED outcome
           ELSE /\ pc' = "ready"
                /\ outcome' = Raised(JiraIssueCreationError(attempts_stated(max_retries), e))
    /\ IF should_retry(attempt, max_retries)
       THEN UNCHANGED <<jira_client, connect_calls>>
       ELSE /\ jira_client' \in Handles
            /\ connect_calls' = connect_calls + 1
    /\ UNCHANGED <<config, creds, op, attempt, args, connect_trace>>

\* one attempt of create_jira_issue that fails: retry after a sleep, or raise
CreateFails ==
    /\ pc = "create"
    /\ sent' = Append(sent, issue_fields(args))
    /\ \E e \in Causes :
        /\ log' = Append(log, Failed(e))
        /\ IF should_retry(attempt, max_retries)
           THEN /\ pc' = "create_sleep"
                /\ UNCHANGED outcome
           ELSE /\ pc' = "ready"
                /\ outcome' = Raised(JiraIssueCreationError(attempts_stated(max_retries), e))
    /\ UNCHANGED <<config, creds, jira_client, op, attempt, args, connect_calls, connect_trace>>

\* time.sleep(delay) in create_jira_issue, then the next value of the range
CreateSleeps ==
    /\ pc = "create_sleep"
    /\ log' = Append(log, Slept(backoff_delay(retry_delay, attempt)))
    /\ attempt' = attempt + 1
    /\ IF in_range(attempt + 1, max_retries)
       THEN /\ pc' = "create"
            /\ UNCHANGED outcome
       ELSE /\ outcome' = Returned(NoValue)
            /\ pc' = "ready"
    /\ UNCHANGED <<config, creds, jira_client, op, args, connect_calls, connect_trace,
                   sent>>

\* what self.jira_client.current_user() does: it returns a user or raises;
\* on a client whose jira_client is None the attribute access raises
current_user ==
    IF jira_client = NoValue
    THEN {Failed("AttributeError")}
    ELSE {Succeeded(u) : u \in Users} \cup {Failed(e) : e \in Causes}

\* mutant: the failure of the probe is raised to the caller
TestConnection_raises ==
    /\ pc = "ready"
    /\ \E r \in current_user :
        /\ log' = <<r>>
        /\ outcome' = IF r.ok THEN Returned("True") ELSE Raised(r.val)
    /\ op' = "test_connection"
    /\ attempt' = 0
    /\ args' = NoArgs
    /\ sent' = <<>>
    /\ UNCHANGED <<config, creds, jira_client, pc, connect_calls, connect_trace>>

\* test_connection(): True when current_user() returned, False when anything
\* was raised
TestConnection ==
    /\ pc = "ready"
    /\ \E r \in current_user :
        /\ log' = <<r>>
        /\ outcome' = IF r.ok THEN Returned("True") ELSE Returned("False")
    /\ op' = "test_connection"
    /\ attempt' = 0
    /\ args' = NoArgs
    /\ sent' = <<>>
    /\ UNCHANGED <<config, creds, jira_client, pc, connect_calls, connect_trace>>

\* what self.jira_client.project(key) does: it returns a project or raises
Fetched(p) == [ev |-> "attempt", ok |-> TRUE, val |-> "project", project |-> p]

project ==
    IF jira_client = NoValue
    THEN {Failed("AttributeError")}
    ELSE {Fetched(p) : p \in Projects} \cup {Failed(e) : e \in Causes}

\* mutant: a missing description is a failure like the other attributes
read_raises_description(p) ==
    \/ p.key = Missing
    \/ p.name = Missing
    \/ p.description = Missing
    \/ p.lead = Missing
    \/ p.lead # NoValue /\ p.displayName = Missing

\* reading project.key, project.name, project.lead or lead.displayName raises
\* when the attribute is missing; getattr(project, 'description', ...) does not
read_raises(p) ==
    \/ p.key = Missing
    \/ p.name = Missing
    \/ p.lead = Missing
    \/ p.lead # NoValue /\ p.displayName = Missing

\* the project_info dict of get_project_info
project_info(p) ==
    [key |-> p.key,
     name |-> p.name,
     description |-> IF p.description = Missing THEN "No description"
                     ELSE p.description,
     lead |-> IF p.lead # NoValue THEN p.displayName ELSE "No lead assigned"]

ReturnedDict(d) == [kind |-> "return", val |-> "dict", dict |-> d]

\* get_project_info(): the project_info dict, or None when anything was raised
GetProjectInfo ==
    /\ pc = "ready"
    /\ \E r \in project :
        /\ log' = <<r>>
        /\ outcome' = IF r.ok /\ ~read_raises(r.project)
                      THEN ReturnedDict(project_info(r.project))
                      ELSE Returned(NoValue)
    /\ op' = "get_project_info"
    /\ attempt' = 0
    /\ args' = NoArgs
    /\ sent' = <<>>
    /\ UNCHANGED <<config, creds, jira_client, pc, connect_calls, connect_trace>>

\* the operations of the client, called by a caller other than
\* run_jira_from_json
Next ==
    \/ Construct /\ UNCHANGED batch
    \/ ConnectSucceeds /\ UNCHANGED batch
    \/ ConnectFails /\ UNCHANGED batch
    \/ ConnectSleeps /\ UNCHANGED batch
    \/ CreateCall /\ UNCHANGED batch
    \/ CreateSucceeds /\ UNCHANGED batch
    \/ CreateFails /\ UNCHANGED batch
    \/ CreateSleeps /\ UNCHANGED batch
    \/ TestConnection /\ UNCHANGED batch
    \/ GetProjectInfo /\ UNCHANGED batch

Spec == Init /\ [][Next]_vars

(* ------------- the issue request validator as a pure function ---------- *)

\* a connected client about to validate one request of IssueRequests
ValidatorInit ==
    /\ environ = [name \in Range(EnvNames) |-> <<"x">>]
    /\ max_retries \in RetryPolicyRetries
    /\ retry_delay = 1
    /\ creds = environ
    /\ jira_client \in Handles
    /\ pc = "validate"
    /\ op = "_validate_issue_input"
    /\ attempt = 0
    /\ args \in IssueRequests
    /\ log = <<>>
    /\ outcome = Pending
    /\ connect_calls = 1
    /\ connect_trace = <<[ev |-> "attempt", ok |-> TRUE]>>
    /\ sent = <<>>
    /\ NoBatch

\* self._validate_issue_input(summary, description, issuetype): raises
\* JiraValidationError with the joined errors, or returns None
ValidateIssueInput ==
    /\ pc = "validate"
    /\ LET errors == _validate_issue_input(args.summary, args.description,
                                           args.issuetype)
       IN  outcome' = IF errors # <<>>
                      THEN Raised(JiraValidationError(errors))
                      ELSE Returned(NoValue)
    /\ pc' = "validated"
    /\ UNCHANGED <<config, creds, jira_client, op, attempt, args, log,
                   connect_calls, connect_trace, sent, batch>>

ValidatorSpec == ValidatorInit /\ [][ValidateIssueInput]_vars

(* ======================= properties of the client ====================== *)

Attempts(l) == SelectSeq(l, LAMBDA e : e.ev = "attempt")

Sleeps(l) == SelectSeq(l, LAMBDA e : e.ev = "sleep")

Delays(l) == [i \in 1..Len(Sleeps(l)) |-> Sleeps(l)[i].delay]

Last(l) == l[Len(l)]

\* ds is d, 2d, 4d, ...: it starts at d and every delay doubles the one before
Doubling(ds, d) ==
    /\ Len(ds) > 0 => ds[1] = d
    /\ \A i \in 2..Len(ds) : ds[i] = 2 * ds[i - 1]

\* l is attempt, sleep, attempt, sleep, ..., attempt
Alternating(l) ==
    /\ Len(l) % 2 = 1
    /\ \A i \in 1..Len(l) : l[i].ev = IF i % 2 = 1 THEN "attempt" ELSE "sleep"

AllFailed(l) == \A i \in 1..Len(Attempts(l)) : ~Attempts(l)[i].ok

\* the call that log belongs to has ended, by a return or by an exception
CallDone == outcome.kind # "none"

\* the ended call went through its retry loop (it was not refused by the
\* configuration check or by the input validation)
RetriedCallDone ==
    /\ CallDone
    /\ op \in {"__init__", "create_jira_issue"}
    /\ outcome.kind = "raise" =>
           outcome.exc.type \in {"JiraConnectionError", "JiraIssueCreationError"}

TerminalError ==
    IF op = "__init__" THEN "JiraConnectionError" ELSE "JiraIssueCreationError"

\* C1: a retried call (connect, create_jira_issue) whose attempts all failed
\* made exactly max_retries + 1 attempts, slept between them for
\* retry_delay, 2*retry_delay, 4*retry_delay, ... (max_retries sleeps, in that
\* order), and ended with its terminal error stating max_retries + 1 attempts;
\* no call ever makes more than max_retries + 1 attempts.
C1_PermanentFailure ==
    /\ Len(Attempts(log)) <= max_retries + 1
    /\ (RetriedCallDone /\ AllFailed(log)) =>
          /\ Len(Attempts(log)) = max_retries + 1
          /\ Alternating(log)
          /\ Len(Delays(log)) = max_retries
          /\ Doubling(Delays(log), retry_delay)
          /\ outcome.kind = "raise"
          /\ outcome.exc.type = TerminalError
          /\ outcome.exc.attempts = max_retries + 1

\* create_jira_issue failed 4 times under (max_retries = 3, retry_delay = 2)
C1_Witness ==
    /\ RetriedCallDone /\ AllFailed(log)
    /\ op = "create_jira_issue"
    /\ max_retries = 3 /\ retry_delay = 2
    /\ Delays(log) = <<2, 4, 8>>
    /\ outcome.exc.attempts = 4

\* C2: a retried call that failed k times and then succeeded (k <= max_retries)
\* made k + 1 attempts, slept k times for retry_delay, 2*retry_delay, ... in
\* that order, and returned the value of the successful attempt.
C2_SuccessAfterFailures ==
    (RetriedCallDone /\ ~AllFailed(log)) =>
        LET k == Len(Attempts(log)) - 1
        IN  /\ 0 <= k /\ k <= max_retries
            /\ \A i \in 1..k : ~Attempts(log)[i].ok
            /\ Attempts(log)[k + 1].ok
            /\ Alternating(log)
            /\ Len(Delays(log)) = k
            /\ Doubling(Delays(log), retry_delay)
            /\ outcome = Returned(Attempts(log)[k + 1].val)
            /\ op = "__init__" => jira_client = Attempts(log)[k + 1].val

\* the connection succeeded on the fourth attempt, after sleeping 1, 2, 4
C2_Witness ==
    /\ RetriedCallDone
    /\ op = "__init__"
    /\ Len(Attempts(log)) = 4 /\ Last(log).ok
    /\ Delays(log) = <<1, 2, 4>>
    /\ outcome = Returned("jiraB")

\* C3: in every state of a call no attempt and no sleep follows a successful
\* attempt, and sleeps occur only between attempts: a log that ends with a
\* sleep belongs to a call that is about to attempt again, so an ended call
\* slept one time less than it attempted, and zero times when its first
\* attempt succeeded.
C3_NothingAfterSuccess ==
    /\ \A i \in 1..Len(log) : (log[i].ev = "attempt" /\ log[i].ok) => i = Len(log)
    /\ \A i \in 1..Len(log) : log[i].ev = IF i % 2 = 1 THEN "attempt" ELSE "sleep"
    /\ (log # <<>> /\ Last(log).ev = "sleep") => pc \in {"connect", "create"}
    /\ (log # <<>> /\ Last(log).ev = "attempt" /\ Last(log).ok) =>
           /\ CallDone
           /\ pc \in {"ready"}
    /\ (CallDone /\ log # <<>>) => Len(Sleeps(log)) = Len(Attempts(log)) - 1
    /\ (pc \in {"connect_sleep", "create_sleep"}) =>
           Len(Sleeps(log)) = Len(Attempts(log)) - 1
    /\ (pc \in {"connect", "create"}) => Len(Sleeps(log)) = Len(Attempts(log))

\* create_jira_issue succeeded on its first attempt and did not sleep, under
\* a policy that allows retries
C3_Witness ==
    /\ op = "create_jira_issue"
    /\ CallDone
    /\ max_retries = 2
    /\ log = <<Succeeded("TEST-1")>>
    /\ outcome = Returned("TEST-1")

\* C4: the terminal error of a retried call wraps the failure of the last
\* attempt and states the number of attempts made, max_retries + 1.
C4_TerminalErrorWrapsLast ==
    (CallDone /\ outcome.kind = "raise"
        /\ outcome.exc.type \in {"JiraConnectionError", "JiraIssueCreationError"}) =>
        /\ outcome.exc.type = TerminalError
        /\ log # <<>>
        /\ Last(log) = Failed(outcome.exc.cause)
        /\ outcome.exc.attempts = Len(Attempts(log))
        /\ outcome.exc.attempts = max_retries + 1

\* the connection failed three times, first by a timeout and last by a refusal
C4_Witness ==
    /\ op = "__init__"
    /\ pc = "init_raised"
    /\ max_retries = 2
    /\ Len(Attempts(log)) = 3
    /\ Attempts(log)[1] = Failed("timeout")
    /\ Attempts(log)[3] = Failed("refused")
    /\ outcome = Raised(JiraConnectionError(3, "refused"))

\* a text with no character but whitespace
IsBlank(s) == \A i \in 1..Len(s) : s[i] = Space

\* the number of characters from the first to the last that is not whitespace
TrimmedLen(s) ==
    Cardinality({i \in 1..Len(s) : /\ \E j \in 1..i : s[j] # Space
                                   /\ \E j \in i..Len(s) : s[j] # Space})

\* the messages of the validation rules the request r violates
ViolatedRules(r) ==
    (IF IsBlank(r.summary) THEN {"Summary cannot be empty"} ELSE {})
    \cup (IF TrimmedLen(r.summary) > 255
          THEN {"Summary cannot exceed 255 characters"} ELSE {})
    \cup (IF IsBlank(r.description) THEN {"Description cannot be empty"} ELSE {})
    \cup (IF IsBlank(r.issuetype) THEN {"Issue type cannot be empty"} ELSE {})

\* C5: a create_jira_issue call whose request violates a validation rule ends
\* at once with JiraValidationError, with no create-issue call made on the
\* service and no sleep, under every retry policy.
C5_ValidationBeforeService ==
    (op = "create_jira_issue" /\ ViolatedRules(args) # {}) =>
        /\ pc = "ready"
        /\ outcome.kind = "raise"
        /\ outcome.exc.type = "JiraValidationError"
        /\ log = <<>>

\* a 256-character summary was refused under max_retries = 3
C5_Witness ==
    /\ op = "create_jira_issue"
    /\ max_retries = 3
    /\ Len(args.summary) = 256
    /\ ViolatedRules(args) = {"Summary cannot exceed 255 characters"}
    /\ outcome.kind = "raise"
    /\ outcome.exc.type = "JiraValidationError"
    /\ log = <<>>

\* C6: the validator reports exactly the violated rules, each once, and
\* accepts the request exactly when no rule is violated.
C6_AllRulesReported ==
    pc = "validated" =>
        IF ViolatedRules(args) = {}
        THEN outcome.kind = "return"
        ELSE /\ outcome.kind = "raise"
             /\ outcome.exc.type = "JiraValidationError"
             /\ Range(outcome.exc.errors) = ViolatedRules(args)
             /\ Len(outcome.exc.errors) = Cardinality(ViolatedRules(args))

\* ("", "", "") is refused with the three missing-field messages together
C6_Witness ==
    /\ pc = "validated"
    /\ args = [summary |-> <<>>, description |-> <<>>, issuetype |-> <<>>]
    /\ outcome = Raised(JiraValidationError(<<"Summary cannot be empty",
                   "Description cannot be empty", "Issue type cannot be empty">>))

SummaryMessages ==
    {"Summary cannot be empty", "Summary cannot exceed 255 characters"}

\* C7: a summary of trimmed length 1..255 passes the summary rules, whatever
\* its length with the surrounding whitespace, and a summary of trimmed length
\* 256 or more is refused as too long.
C7_LimitOnTrimmedSummary ==
    pc = "validated" =>
        LET n == TrimmedLen(args.summary)
            reported == IF outcome.kind = "raise"
                        THEN Range(outcome.exc.errors) ELSE {}
        IN  /\ (1 <= n /\ n <= 255) => reported \cap SummaryMessages = {}
            /\ n >= 256 => "Summary cannot exceed 255 characters" \in reported

\* a summary of 255 characters between two spaces (257 as given) was accepted
C7_Witness ==
    /\ pc = "validated"
    /\ Len(args.summary) = 257
    /\ TrimmedLen(args.summary) = 255
    /\ outcome.kind = "return"

\* the required variables that are absent from the environment or empty
Absent == {name \in Range(EnvNames) : environ[name] \in {NoneVal, <<>>}}

ConfigurationRefused ==
    /\ pc = "init_raised"
    /\ outcome.kind = "raise"
    /\ outcome.exc.type = "JiraConfigurationError"

\* C8: once the configuration was validated, it was accepted if no required
\* variable is absent or empty, and otherwise refused by one
\* JiraConfigurationError that names every absent variable, once, and none of
\* the present ones.
C8_ConfigErrorNamesAllMissing ==
    pc # "new" =>
        IF Absent = {}
        THEN ~ConfigurationRefused
        ELSE /\ ConfigurationRefused
             /\ Range(outcome.exc.missing) = Absent
             /\ Len(outcome.exc.missing) = Cardinality(Absent)

\* JIRA_API_TOKEN is absent and JIRA_PROJECT_KEY is empty: both are named
C8_Witness ==
    /\ pc = "init_raised"
    /\ environ = [JIRA_BASE_URL |-> <<"x">>, JIRA_EMAIL |-> <<"x">>,
                  JIRA_API_TOKEN |-> NoneVal, JIRA_PROJECT_KEY |-> <<>>]
    /\ outcome = Raised(JiraConfigurationError(
                            <<"JIRA_API_TOKEN", "JIRA_PROJECT_KEY">>))

\* __init__ has returned: the caller holds a client object
ClientExists == pc \in {"ready", "create", "create_sleep"}

\* C9: with a required variable absent or empty the constructor never makes a
\* connection attempt, never sleeps and never yields a client object, and
\* raises JiraConfigurationError; a client object exists only with a valid
\* configuration and the handle of a successful connection attempt.
C9_NoClientWithoutConfig ==
    /\ Absent # {} =>
          /\ pc \in {"new", "init_raised"}
          /\ pc = "init_raised" => ConfigurationRefused
          /\ connect_calls = 0
          /\ log = <<>>
          /\ jira_client = "unset"
    /\ ClientExists =>
          /\ Absent = {}
          /\ connect_calls >= 1
          /\ jira_client \in Handles
          /\ op = "__init__" => (log # <<>> /\ Last(log) = Succeeded(jira_client))

\* only JIRA_EMAIL is empty: construction failed before any attempt under a
\* policy of three retries
C9_Witness ==
    /\ ConfigurationRefused
    /\ Absent = {"JIRA_EMAIL"}
    /\ max_retries = 3
    /\ connect_calls = 0
    /\ jira_client = "unset"

\* the connection lifecycle of the Ticket Client, read off the client's state
Lifecycle ==
    CASE pc = "new" -> "Unconnected"
      [] pc \in {"connect", "connect_sleep"} -> "Connecting"
      [] pc = "init_raised" ->
            IF outcome.exc.type = "JiraConnectionError"
            THEN "Failed" ELSE "Unconnected"
      [] OTHER -> "Connected"

\* C10: the lifecycle moves only Unconnected -> Connecting -> Connected or
\* Failed; Connected is entered by a successful connection attempt, Failed
\* after max_retries + 1 failed attempts; both are terminal, with no later
\* connection attempt; a create-issue attempt is made only while Connected.
C10_ConnectionLifecycle ==
    [][/\ Lifecycle = "Unconnected" => Lifecycle' \in {"Unconnected", "Connecting"}
       /\ Lifecycle = "Connecting" =>
             Lifecycle' \in {"Connecting", "Connected", "Failed"}
       /\ Lifecycle \in {"Connected", "Failed"} =>
             /\ Lifecycle' = Lifecycle
             /\ connect_calls' = connect_calls
             /\ jira_client' = jira_client
       /\ (Lifecycle # "Connected" /\ Lifecycle' = "Connected") =>
             /\ connect_calls' = connect_calls + 1
             /\ jira_client' \in Handles
             /\ log' = Append(log, Succeeded(jira_client'))
       /\ (Lifecycle # "Failed" /\ Lifecycle' = "Failed") =>
             /\ AllFailed(log')
             /\ Len(Attempts(log')) = max_retries + 1
             /\ connect_calls' = max_retries + 1
       /\ connect_calls' # connect_calls => Lifecycle = "Connecting"
       /\ (op' = "create_jira_issue" /\ Len(log') = Len(log) + 1
              /\ Last(log').ev = "attempt") =>
             /\ Lifecycle = "Connected"
             /\ jira_client \in Handles
      ]_vars

\* connected on the second attempt, the client has made a create-issue
\* attempt that failed
C10_Witness ==
    /\ Lifecycle = "Connected"
    /\ connect_calls = 2
    /\ jira_client = "jiraA"
    /\ pc = "create_sleep"
    /\ Last(log) = Failed("timeout")

(* ============ the batch processor (src/main_jira.py) ==================== *)

\* most entries of an input list
MaxBatch == 2

\* DocToJira() in run_jira_from_json takes the defaults of the constructor
DefaultMaxRetries == 3
DefaultRetryDelay == 1

\* a key an entry does not have
NoKey == <<"<no key>">>

\* a JSON object with the values of its keys (NoKey: the object lacks the key)
Dict(user_story, deliverables, issue_type) ==
    [type |-> "dict", user_story |-> user_story,
     deliverables |-> deliverables, issue_type |-> issue_type]

\* a JSON value that is no object: it has no get method
NotDict == [type |-> "str", user_story |-> NoKey, deliverables |-> NoKey,
            issue_type |-> NoKey]

\* the three entries of the batch [{user_story: A, deliverables: B},
\* {deliverables: C}, {user_story: D, deliverables: E, issue_type: Bug}]
EntryAB == Dict(<<"A">>, <<"B">>, NoKey)
EntryC == Dict(NoKey, <<"C">>, NoKey)
EntryDEBug == Dict(<<"D">>, <<"E">>, <<"B", "u", "g">>)

ExampleBatch == <<EntryAB, EntryC, EntryDEBug>>

\* an entry whose user_story is blank and whose deliverables are absent
EntryBlank == Dict(<<Space>>, NoKey, NoKey)

\* an entry whose user_story is one character over the limit of the
\* validator and whose issue type is blank
EntryLong == Dict(Rep("a", SummaryLimit + 1), <<"B">>, <<Space>>)

\* a batch with the entry that is over the limit
LongBatch == <<EntryLong, EntryBlank>>

\* an entry whose three values have surrounding whitespace
EntryPadded ==
    Dict(<<Space, "D">>, <<"E", Space>>, <<Space, "B", "u", "g">>)

\* a batch with the padded entry
PaddedBatch == <<EntryPadded, Dict(<<"A">>, <<Space>>, NoKey)>>

\* an entry with both required values and an issue_type that is null
EntryNullType == Dict(<<"A">>, <<"B">>, NoneVal)

\* a batch of that one entry
NullTypeBatch == <<EntryNullType>>

\* the entries the input lists are built from: the three above, an entry
\* with blank deliverables, one with a blank issue type, one whose
\* user_story is null, and a value that is no object
Entries ==
    {EntryAB, EntryC, EntryDEBug,
     Dict(<<"A">>, <<Space>>, NoKey),
     Dict(<<"A">>, <<"B">>, <<Space>>),
     Dict(NoneVal, <<"B">>, NoKey),
     NotDict}

\* the lists json.load returns
Batches ==
    UNION {[1..n -> Entries] : n \in 0..MaxBatch}
        \cup {ExampleBatch, LongBatch, PaddedBatch, NullTypeBatch}

\* what opening and loading the file gives: a list, a JSON value that is no
\* list, or an exception
Loaded(l) == [kind |-> "list", list |-> l]
FileContents ==
    {Loaded(l) : l \in Batches}
        \cup {[kind |-> k, list |-> <<>>] :
                k \in {"dict", "FileNotFoundError", "JSONDecodeError"}}

\* entry.get(key, default)
get(entry, key, default) ==
    IF entry[key] = NoKey THEN default ELSE entry[key]

\* the defaults of the three get calls of the loop body
Story == <<"S", "t", "o", "r", "y">>
Unknown == <<"U", "n", "k", "n", "o", "w", "n">>

\* mutant: an entry without issue_type is a Task
issue_type_task(entry) == get(entry, "issue_type", <<"T", "a", "s", "k">>)

\* entry.get("issue_type", "Story")
issue_type(entry) == get(entry, "issue_type", Story)

\* the three values the loop body calls .strip() on
fields(entry) ==
    <<get(entry, "user_story", <<>>), get(entry, "deliverables", <<>>),
      issue_type(entry)>>

\* .strip() raises AttributeError on a value that is no str
strip_raises(entry) == \E n \in 1..3 : fields(entry)[n] = NoneVal

AttributeError == [type |-> "AttributeError"]

MissingUserStory == "Missing or empty 'user_story'"
MissingDeliverables == "Missing or empty 'deliverables'"

\* the records appended to the three lists of results
Created(n, issue_key, summary) ==
    [entry |-> n, issue_key |-> issue_key, summary |-> summary]
FailedEntry(n, error, entry) ==
    [entry |-> n, error |-> error,
     summary |-> get(entry, "user_story", Unknown)]
Skipped(n, reason) == [entry |-> n, reason |-> reason]

\* the call create_jira_issue(summary, description, issuetype) of entry n
Submitted(n, request) == [entry |-> n, request |-> request]

\* run_jira_from_json is called: results is empty, DocToJira() is called
BatchInit ==
    /\ NewClient({DefaultMaxRetries}, {DefaultRetryDelay})
    /\ run = "client"
    /\ user_stories = <<>>
    /\ entry_no = 0
    /\ results = NoResults
    /\ submitted = <<>>
    /\ caught = NoValue
    /\ create_issue_calls = NoCalls
    /\ preflight = NoPreflight

\* mutant: the outer handlers raise the exception again to the caller
Catch_reraises(exc) ==
    /\ run' = "raised"
    /\ caught' = exc.type
    /\ UNCHANGED <<user_stories, results, submitted, create_issue_calls,
                   preflight>>

\* `return results` after the exception exc reached the outer handlers
Catch(exc) ==
    /\ run' = "returned"
    /\ caught' = exc.type
    /\ UNCHANGED <<user_stories, results, submitted, create_issue_calls,
                   preflight>>

\* mutant: the exception of the constructor is swallowed, the run goes on
\* with the input file
AfterConstruction_goes_on ==
    IF pc' \in {"init_raised", "ready"}
    THEN /\ run' = IF pc' = "ready" THEN "probe" ELSE "read"
         /\ UNCHANGED <<user_stories, entry_no, results, submitted, caught,
                        create_issue_calls,
                   preflight>>
    ELSE UNCHANGED batch

\* `jira = DocToJira()`: an exception of the constructor goes to the outer
\* handlers, a client goes to the connection test
AfterConstruction ==
    IF pc' = "init_raised"
    THEN Catch(outcome'.exc) /\ UNCHANGED entry_no
    ELSE IF pc' = "ready"
         THEN /\ run' = "probe"
              /\ UNCHANGED <<user_stories, entry_no, results, submitted, caught,
                        create_issue_calls,
                   preflight>>
         ELSE UNCHANGED batch

RunConstruct == run = "client" /\ Construct /\ AfterConstruction
RunConnectSucceeds == run = "client" /\ ConnectSucceeds /\ AfterConstruction
RunConnectFails == run = "client" /\ ConnectFails /\ AfterConstruction
RunConnectSleeps == run = "client" /\ ConnectSleeps /\ AfterConstruction

\* mutant: the run goes on whatever test_connection returned
RunTestConnection_ignores_result ==
    /\ run = "probe"
    /\ TestConnection
    /\ run' = "project"
    /\ UNCHANGED <<user_stories, entry_no, results, submitted, caught,
                        create_issue_calls,
                   preflight>>

\* `if not jira.test_connection(): return results`
RunTestConnection ==
    /\ run = "probe"
    /\ TestConnection
    /\ run' = IF outcome'.val = "True" THEN "project" ELSE "returned"
    /\ UNCHANGED <<user_stories, entry_no, results, submitted, caught,
                        create_issue_calls,
                   preflight>>

\* `project_info = jira.get_project_info()`: the result is only printed
RunGetProjectInfo ==
    /\ run = "project"
    /\ GetProjectInfo
    /\ run' = "read"
    /\ UNCHANGED <<user_stories, entry_no, results, submitted, caught,
                        create_issue_calls,
                   preflight>>

\* the summary printed after the loop slices item['summary'] of every failed
\* entry: a summary that is no str raises TypeError, which the outer handler
\* catches
print_summary(res) ==
    IF \E k \in 1..Len(res.failed_issues) :
           res.failed_issues[k].summary = NoneVal
    THEN "TypeError"
    ELSE NoValue

\* after the entry at position n: the next entry, or after the last entry
\* the summary and `return results`
AfterEntry(n) ==
    IF n = Len(user_stories)
    THEN /\ run' = "returned"
         /\ caught' = print_summary(results')
    ELSE /\ run' = "loop"
         /\ UNCHANGED caught

\* open, json.load and the isinstance test: the list, or an exception that
\* goes to the outer handlers
ReadInputOf(f) ==
    /\ run = "read"
    /\ op' = IF f.kind = "FileNotFoundError" THEN "open" ELSE "json.load"
    /\ IF f.kind = "list"
       THEN /\ user_stories' = f.list
            /\ outcome' = Returned("list")
            /\ run' = IF f.list = <<>> THEN "returned" ELSE "loop"
            /\ UNCHANGED caught
       ELSE /\ outcome' = IF f.kind = "dict" THEN Returned("dict")
                          ELSE Raised([type |-> f.kind])
            /\ run' = "returned"
            /\ caught' = IF f.kind = "dict" THEN "TypeError" ELSE f.kind
            /\ UNCHANGED user_stories
    /\ log' = <<>>
    /\ UNCHANGED <<config, creds, jira_client, pc, attempt, args,
                   connect_calls, connect_trace, sent, entry_no, results,
                   submitted, create_issue_calls,
                   preflight>>

\* run_jira_from_json reads whatever the file holds
ReadInput == \E f \in FileContents : ReadInputOf(f)

\* mutant: the entries are counted from 0
entry_key_from_0(position) == position - 1

\* `for i, entry in enumerate(user_stories, 1)`: the i of the entry at a
\* position (1, 2, ...) of the list
entry_key(position) == position

\* mutant: blank deliverables are not a reason to skip
skip_reason_summary_only(summary, description) ==
    IF Falsy(summary) THEN MissingUserStory ELSE NoValue

\* mutant: the deliverables are tested before the user_story
skip_reason_description_first(summary, description) ==
    IF Falsy(description) THEN MissingDeliverables
    ELSE IF Falsy(summary) THEN MissingUserStory
    ELSE NoValue

\* `if not summary` and `if not description`: the reason to skip the entry,
\* None when there is none
skip_reason(summary, description) ==
    IF Falsy(summary) THEN MissingUserStory
    ELSE IF Falsy(description) THEN MissingDeliverables
    ELSE NoValue

\* results with the record r appended to the list named list
Appended(list, r) == [results EXCEPT ![list] = Append(@, r)]

\* the client is not called
NoCall ==
    UNCHANGED <<config, creds, jira_client, pc, op, attempt, args, log,
                outcome, connect_calls, connect_trace, sent>>

\* mutant: the loop takes the next entry while the call for the current one
\* is still retrying
next_turn_early ==
    /\ run \in {"loop", "entry"}
    /\ entry_no < Len(user_stories)

\* the `for` statement takes the next entry when the body of the previous
\* turn has ended
next_turn == run = "loop"

\* one turn of the loop of run_jira_from_json up to the first attempt of
\* create_jira_issue: read the entry, skip it, or call create_jira_issue
ProcessEntry ==
    /\ next_turn
    /\ entry_no' = entry_no + 1
    /\ UNCHANGED <<user_stories, create_issue_calls,
                   preflight>>
    /\ LET n == entry_key(entry_no + 1)
           entry == user_stories[entry_no + 1]
       IN  IF entry.type # "dict"
           THEN \* entry.get raises AttributeError, and raises it again in
                \* the handler of the loop body: the outer handler gets it
                /\ run' = "returned"
                /\ caught' = "AttributeError"
                /\ NoCall
                /\ UNCHANGED <<results, submitted>>
           ELSE IF strip_raises(entry)
           THEN /\ results' = Appended("failed_issues",
                                       FailedEntry(n, AttributeError, entry))
                /\ AfterEntry(entry_no + 1)
                /\ NoCall
                /\ UNCHANGED submitted
           ELSE LET summary == strip(fields(entry)[1])
                    description == strip(fields(entry)[2])
                    issuetype == strip(fields(entry)[3])
                    request == [summary |-> summary,
                                description |-> description,
                                issuetype |-> issuetype]
                    reason == skip_reason(summary, description)
                IN  IF reason # NoValue
                    THEN /\ results' = Appended("skipped_issues",
                                                Skipped(n, reason))
                         /\ AfterEntry(entry_no + 1)
                         /\ NoCall
                         /\ UNCHANGED submitted
                    ELSE /\ create_jira_issue(request)
                         /\ submitted' = Append(submitted, Submitted(n, request))
                         /\ IF outcome'.kind = "raise"
                            THEN /\ results' = Appended("failed_issues",
                                        FailedEntry(n, outcome'.exc, entry))
                                 /\ AfterEntry(entry_no + 1)
                            ELSE IF outcome'.kind = "return"
                            THEN /\ results' = Appended("created_issues",
                                        Created(n, outcome'.val, summary))
                                 /\ AfterEntry(entry_no + 1)
                            ELSE /\ run' = "entry"
                                 /\ UNCHANGED <<results, caught>>

\* the attempt of create_jira_issue succeeded: the entry is created
RunCreateSucceeds ==
    /\ run = "entry"
    /\ CreateSucceeds
    /\ results' = Appended("created_issues",
                           Created(entry_key(entry_no), outcome'.val, args.summary))
    /\ AfterEntry(entry_no)
    /\ create_issue_calls' =
           ServiceCall(create_issue_calls, entry_key(entry_no), TRUE)
    /\ UNCHANGED <<user_stories, entry_no, submitted, preflight>>

\* mutant: an entry whose call used all its attempts is recorded as created
RunCreateFails_created ==
    /\ run = "entry"
    /\ CreateFails
    /\ IF outcome'.kind = "raise"
       THEN /\ results' = Appended("created_issues",
                   Created(entry_key(entry_no), NoValue, args.summary))
            /\ AfterEntry(entry_no)
       ELSE UNCHANGED <<results, run, caught>>
    /\ create_issue_calls' =
           ServiceCall(create_issue_calls, entry_key(entry_no), FALSE)
    /\ UNCHANGED <<user_stories, entry_no, submitted, preflight>>

\* the attempt failed: after the last one JiraIssueCreationError reaches the
\* handler of the loop body and the entry is failed
RunCreateFails ==
    /\ run = "entry"
    /\ CreateFails
    /\ IF outcome'.kind = "raise"
       THEN /\ results' = Appended("failed_issues",
                   FailedEntry(entry_key(entry_no), outcome'.exc,
                               user_stories[entry_no]))
            /\ AfterEntry(entry_no)
       ELSE UNCHANGED <<results, run, caught>>
    /\ create_issue_calls' =
           ServiceCall(create_issue_calls, entry_key(entry_no), FALSE)
    /\ UNCHANGED <<user_stories, entry_no, submitted, preflight>>

\* the sleep between two attempts
RunCreateSleeps ==
    /\ run = "entry"
    /\ CreateSleeps
    /\ IF outcome'.kind = "return"
       THEN /\ results' = Appended("created_issues",
                   Created(entry_key(entry_no), outcome'.val, args.summary))
            /\ AfterEntry(entry_no)
       ELSE UNCHANGED <<results, run, caught>>
    /\ UNCHANGED <<user_stories, entry_no, submitted, create_issue_calls,
                   preflight>>

BatchNext ==
    \/ RunConstruct
    \/ RunConnectSucceeds
    \/ RunConnectFails
    \/ RunConnectSleeps
    \/ RunTestConnection
    \/ RunGetProjectInfo
    \/ ReadInput
    \/ ProcessEntry
    \/ RunCreateSucceeds
    \/ RunCreateFails
    \/ RunCreateSleeps

BatchSpec == BatchInit /\ [][BatchNext]_vars

(* ================== properties of the batch processor ================== *)

\* the entry numbers of a list of results
Keys(l) == [k \in 1..Len(l) |-> l[k].entry]

\* the numbers of the entries in the three lists of results
CreatedKeys == Keys(results.created_issues)
FailedKeys == Keys(results.failed_issues)
SkippedKeys == Keys(results.skipped_issues)

\* how often the entry number n is in a list of entry numbers
Count(ks, n) == Cardinality({k \in 1..Len(ks) : ks[k] = n})

\* C11: when DocToJira() raises JiraConfigurationError or JiraConnectionError,
\* run_jira_from_json returns at once: the input is not read, no entry is
\* processed, create_jira_issue is never called and the three lists of the
\* results are empty.
C11_ConstructionErrorAbortsBatch ==
    pc = "init_raised" =>
        /\ run = "returned"
        /\ caught = outcome.exc.type
        /\ caught \in {"JiraConfigurationError", "JiraConnectionError"}
        /\ op = "__init__"
        /\ user_stories = <<>>
        /\ entry_no = 0
        /\ submitted = <<>>
        /\ results = NoResults

\* the connection failed four times and the run has returned
C11_Witness ==
    /\ run = "returned"
    /\ caught = "JiraConnectionError"
    /\ connect_calls = DefaultMaxRetries + 1
    /\ results = NoResults

\* the entry at position n is in exactly one list of the results, once
InOneBucket(n) ==
    Count(CreatedKeys, n) + Count(FailedKeys, n) + Count(SkippedKeys, n) = 1

\* the entry at position n is in a list of the results
HasOutcome(n) ==
    Count(CreatedKeys, n) + Count(FailedKeys, n) + Count(SkippedKeys, n) > 0

\* C12: when run_jira_from_json has returned, every entry of the input list
\* is in exactly one of created, failed and skipped: the three lengths add
\* up to the length of the input and no entry number is in two lists or
\* twice in one.
C12_EveryEntryInOneBucket ==
    run = "returned" =>
        /\ Len(results.created_issues) + Len(results.failed_issues)
               + Len(results.skipped_issues) = Len(user_stories)
        /\ \A n \in 1..Len(user_stories) : InOneBucket(n)

\* the errors create_jira_issue raises for an entry
EntryErrors == {"JiraValidationError", "JiraIssueCreationError"}

\* C13: when run_jira_from_json has returned, an entry for which
\* create_jira_issue raised JiraValidationError or JiraIssueCreationError is
\* in failed with that error, and every entry after it has an outcome of
\* its own in created, failed or skipped.
C13_FailureDoesNotAbort ==
    run = "returned" =>
        \A k \in 1..Len(results.failed_issues) :
            LET f == results.failed_issues[k]
            IN  f.error.type \in EntryErrors =>
                    \A n \in (f.entry + 1)..Len(user_stories) : InOneBucket(n)

\* processing the entry raises something else than the two errors of
\* create_jira_issue: it is no object, or a value of it is no string
Unexpected(entry) == entry.type # "dict" \/ strip_raises(entry)

\* C14: an unexpected failure while one entry is processed is recorded in
\* failed under the number of the entry and the loop goes on: when
\* run_jira_from_json has returned after loading the list, no exception of
\* an entry has reached the outer handlers, every entry has been visited and
\* every entry with an unexpected failure is in failed.
C14_UnexpectedFailureIsRecorded ==
    (run = "returned" /\ user_stories # <<>>) =>
        /\ caught # "AttributeError"
        /\ entry_no = Len(user_stories)
        /\ \A n \in 1..Len(user_stories) :
               Unexpected(user_stories[n]) =>
                   /\ Count(FailedKeys, n) = 1
                   /\ Count(CreatedKeys, n) + Count(SkippedKeys, n) = 0

\* the entry numbers of ks increase strictly
Increasing(ks) == \A k \in 2..Len(ks) : ks[k - 1] < ks[k]

\* the positions of the input list the loop has visited
Visited == 1..entry_no

\* C15: every record of the results carries the 1-based position of its
\* input entry (the first entry is 1, the record describes the entry at
\* that position), and in each of created, failed and skipped the entry
\* numbers increase strictly.
C15_KeyedByPosition ==
    /\ \A ks \in {CreatedKeys, FailedKeys, SkippedKeys} :
        /\ \A k \in 1..Len(ks) : ks[k] \in Visited
        /\ Increasing(ks)
    /\ \A k \in 1..Len(results.created_issues) :
        LET c == results.created_issues[k]
        IN  c.summary = strip(user_stories[c.entry].user_story)
    /\ \A k \in 1..Len(results.failed_issues) :
        LET f == results.failed_issues[k]
        IN  f.summary = IF user_stories[f.entry].user_story = NoKey
                        THEN Unknown
                        ELSE user_stories[f.entry].user_story
    /\ \A k \in 1..Len(results.skipped_issues) :
        LET s == results.skipped_issues[k]
            e == user_stories[s.entry]
        IN  \/ e.user_story = NoKey
            \/ e.deliverables = NoKey
            \/ IsBlank(e.user_story)
            \/ IsBlank(e.deliverables)

\* the first entry is created under the number 1, the second skipped under
\* the number 2
C15_Witness ==
    /\ run = "returned"
    /\ CreatedKeys = <<1>>
    /\ SkippedKeys = <<2>>
    /\ user_stories = <<EntryAB, EntryC>>

\* a value of an entry that is a string or absent: trimming it is defined
Text(v) == v # NoneVal

\* the value is absent or empty after trimming
Blank(v) == v = NoKey \/ IsBlank(v)

\* the calls of create_jira_issue for the entry number n
CallsFor(n) == SelectSeq(submitted, LAMBDA c : c.entry = n)

\* the entry number n is in skipped once, with the reason, and nowhere else,
\* and create_jira_issue has not been called for it
SkippedFor(n, reason) ==
    /\ Count(SkippedKeys, n) = 1
    /\ \E k \in 1..Len(results.skipped_issues) :
           results.skipped_issues[k] = [entry |-> n, reason |-> reason]
    /\ Count(CreatedKeys, n) + Count(FailedKeys, n) = 0
    /\ CallsFor(n) = <<>>

\* C16: a visited entry (an object whose values are strings or absent) whose
\* user_story is absent or empty after trimming is in skipped with the
\* reason "Missing or empty 'user_story'"; one whose user_story is not
\* empty but whose deliverables are absent or empty after trimming is in
\* skipped with the reason "Missing or empty 'deliverables'"; such an entry
\* is in neither created nor failed and create_jira_issue is not called for
\* it (so no attempt is made and no sleep is taken for it); every entry in
\* skipped is one of these.
C16_SkipsWithoutCall ==
    /\ \A n \in Visited :
        LET e == user_stories[n]
        IN  (e.type = "dict" /\ Text(e.user_story) /\ Text(e.deliverables)
                 /\ Text(e.issue_type)) =>
                /\ Blank(e.user_story) =>
                       SkippedFor(n, "Missing or empty 'user_story'")
                /\ (~Blank(e.user_story) /\ Blank(e.deliverables)) =>
                       SkippedFor(n, "Missing or empty 'deliverables'")
    /\ \A k \in 1..Len(results.skipped_issues) :
        LET e == user_stories[results.skipped_issues[k].entry]
        IN  Blank(e.user_story) \/ Blank(e.deliverables)

\* the first entry has blank deliverables, the second no user_story: both
\* are skipped and create_jira_issue has not been called
C16_Witness ==
    /\ run = "returned"
    /\ user_stories = <<Dict(<<"A">>, <<Space>>, NoKey), EntryC>>
    /\ results.skipped_issues = <<[entry |-> 1, reason |-> MissingDeliverables],
                                  [entry |-> 2, reason |-> MissingUserStory]>>
    /\ submitted = <<>>
    /\ op = "json.load"

\* the issue types of the create_jira_issue calls, in the order of the calls
SentTypes == [k \in 1..Len(submitted) |-> submitted[k].request.issuetype]

\* the example batch came out as stated: entry 1 created as a Story, entry 2
\* skipped, entry 3 created as a Bug
ExampleOutcome ==
    /\ CreatedKeys = <<1, 3>>
    /\ SkippedKeys = <<2>>
    /\ Keys(submitted) = <<1, 3>>
    /\ SentTypes = <<Story, <<"B", "u", "g">>>>

\* C17 as stated: the issue type of every create_jira_issue call is the
\* issue_type of the entry when the entry has that key and "Story" when it
\* has not, and the example batch run without a failed entry creates entry 1
\* as a Story, skips entry 2 and creates entry 3 as a Bug.
C17_IssueTypeAsGiven ==
    /\ \A k \in 1..Len(submitted) :
        LET e == user_stories[submitted[k].entry]
        IN  submitted[k].request.issuetype =
                IF e.issue_type = NoKey THEN Story ELSE e.issue_type
    /\ (run = "returned" /\ user_stories = ExampleBatch /\ FailedKeys = <<>>)
           => ExampleOutcome

\* C17: the issue type of every create_jira_issue call is the issue_type of
\* the entry with the surrounding whitespace removed when the entry has that
\* key and "Story" when it has not, and the example batch run without a
\* failed entry creates entry 1 as a Story, skips entry 2 and creates entry
\* 3 as a Bug.
C17_IssueTypeTrimmed ==
    /\ \A k \in 1..Len(submitted) :
        LET e == user_stories[submitted[k].entry]
        IN  submitted[k].request.issuetype =
                IF e.issue_type = NoKey THEN Story ELSE strip(e.issue_type)
    /\ (run = "returned" /\ user_stories = ExampleBatch /\ FailedKeys = <<>>)
           => ExampleOutcome

\* the example batch has been run and no entry failed
C17_Witness ==
    /\ run = "returned"
    /\ user_stories = ExampleBatch
    /\ FailedKeys = <<>>
    /\ ExampleOutcome

(* ============ the probes and the two retry loops of the client ========= *)

\* the fields of the client object
self == <<max_retries, retry_delay, creds, jira_client>>

\* C18: a call of test_connection never raises; it returns True exactly when
\* current_user() returned and False when it raised; it makes that one call
\* to the service and leaves the client as it was.
C18_ProbeNeverRaises ==
    [][op' = "test_connection" =>
          /\ Len(log') = 1
          /\ outcome' = Returned(IF log'[1].ok THEN "True" ELSE "False")
          /\ log'[1].ok <=> log'[1].val \in Users
          /\ pc = "ready" /\ pc' = "ready"
          /\ self' = self
          /\ connect_calls' = connect_calls
      ]_vars

\* the probe of a connected client failed and False was returned
C18_Witness ==
    /\ op = "test_connection"
    /\ log = <<Failed("refused")>>
    /\ outcome = Returned("False")
    /\ jira_client = "jiraB"

\* every attribute get_project_info reads without a default is there
Readable(p) ==
    /\ p.key # Missing
    /\ p.name # Missing
    /\ p.lead # Missing
    /\ p.lead # "None" => p.displayName # Missing

\* C19: a call of get_project_info never raises; when project(key) returned
\* a project whose attributes can be read it returns a dict with exactly the
\* keys key, name, description and lead taken from the project (with
\* 'No description' and 'No lead assigned' for a project that has none), and
\* it returns None when project(key) raised or reading an attribute raised.
C19_ProjectInfoOrNone ==
    op = "get_project_info" =>
        /\ Len(log) = 1
        /\ outcome.kind = "return"
        /\ pc = "ready"
        /\ IF log[1].ok /\ Readable(log[1].project)
           THEN LET p == log[1].project
                    d == outcome.dict
                IN  /\ outcome.val = "dict"
                    /\ DOMAIN d = {"key", "name", "description", "lead"}
                    /\ d.key = p.key
                    /\ d.name = p.name
                    /\ d.description = IF p.description = Missing
                                       THEN "No description" ELSE p.description
                    /\ d.lead = IF p.lead = "None" THEN "No lead assigned"
                                ELSE p.displayName
           ELSE outcome = Returned("None")

\* the project was fetched, its lead has no displayName: None was returned
C19_Witness ==
    /\ op = "get_project_info"
    /\ log = <<Fetched([FullProject EXCEPT !.displayName = Missing])>>
    /\ outcome = Returned("None")

\* which attempts of a log succeeded, in order
OkPattern(l) == [k \in 1..Len(Attempts(l)) |-> Attempts(l)[k].ok]

\* what a retry loop with the initial delay d does for the attempts of pat:
\* attempt, sleep d, attempt, sleep 2d, attempt, sleep 4d, ...
RetryShape(pat, d) ==
    [n \in 1..(2 * Len(pat) - 1) |->
        IF n % 2 = 1
        THEN [ev |-> "attempt", ok |-> pat[(n + 1) \div 2]]
        ELSE Slept(d * Pow2(n \div 2 - 1))]

\* C20: _connect_to_jira and create_jira_issue run the same retry loop: a
\* finished call of either, with the policy (max_retries, retry_delay) and
\* the same successes and failures of its attempts, has made the same
\* attempts and the same sleeps and has ended the same way (returned after
\* the first success, raised after max_retries + 1 failures); a
\* create_jira_issue call whose attempts went as those of the connection has
\* the very trace of the connection.
C20_SameRetryLoop ==
    /\ (RetriedCallDone /\ log # <<>>) =>
        LET pat == OkPattern(log)
        IN  /\ Shape(log) = RetryShape(pat, retry_delay)
            /\ \A k \in 1..(Len(pat) - 1) : ~pat[k]
            /\ Len(pat) <= max_retries + 1
            /\ IF pat[Len(pat)]
               THEN outcome.kind = "return"
               ELSE /\ outcome.kind = "raise"
                    /\ Len(pat) = max_retries + 1
                    /\ outcome.exc.attempts = max_retries + 1
    /\ (op = "create_jira_issue" /\ CallDone /\ log # <<>>
            /\ OkPattern(log) = OkPattern(connect_trace)) =>
        /\ Shape(log) = connect_trace
        /\ outcome.kind = "return"

\* the connection and the issue were both made on the third attempt
C20_Witness ==
    /\ op = "create_jira_issue"
    /\ CallDone
    /\ OkPattern(log) = <<FALSE, FALSE, TRUE>>
    /\ Shape(log) = connect_trace
    /\ Delays(log) = <<retry_delay, 2 * retry_delay>>
    /\ retry_delay = 2

\* ---------------------------------------------------------------------
\* One request at a time
\* ---------------------------------------------------------------------

\* the step makes an attempt on the service for an entry of the batch
AttemptStep == create_issue_calls' # create_issue_calls

\* the entries before position n all have their outcome recorded
EarlierRecorded(n) == \A k \in 1..(n - 1) : HasOutcome(k)

\* C21: the batch processes one request at a time. The loop takes the next
\* entry only when no call is in progress and every earlier entry has its
\* outcome recorded; every attempt on the service is an attempt of the call
\* for the current entry, made while that entry has no outcome yet and all
\* entries before it have theirs, and no call was submitted for a later
\* entry; while a call waits in its backoff sleep the only step is that
\* sleep: no entry is taken, no call is submitted, no attempt is made and
\* no outcome is recorded.
C21_OneRequestAtATime ==
    [][ /\ entry_no' # entry_no =>
            /\ entry_no' = entry_no + 1
            /\ pc = "ready"
            /\ EarlierRecorded(entry_no + 1)
        /\ AttemptStep =>
            /\ run = "entry"
            /\ entry_no' = entry_no
            /\ submitted' = submitted
            /\ Last(submitted).entry = entry_key(entry_no)
            /\ ~HasOutcome(entry_no)
            /\ EarlierRecorded(entry_no)
            /\ \A i \in 1..Len(submitted) : submitted[i].entry <= entry_no
        /\ pc = "create_sleep" =>
            /\ log' = Append(log, Slept(backoff_delay(retry_delay, attempt)))
            /\ ~AttemptStep
            /\ entry_no' = entry_no
            /\ submitted' = submitted
            /\ results' = results
      ]_vars

\* the call for entry 2 waits in its backoff sleep after entry 1 used all
\* its attempts and sleeps and was recorded as failed
C21_Witness ==
    /\ run = "entry"
    /\ entry_no = 2
    /\ pc = "create_sleep"
    /\ Len(results.failed_issues) = 1
    /\ results.failed_issues[1].entry = 1
    /\ create_issue_calls.made > max_retries + 1

\* ---------------------------------------------------------------------
\* The client after construction
\* ---------------------------------------------------------------------

\* C22: once the client exists, no step of create_jira_issue (whatever its
\* outcome), test_connection or get_project_info changes the credentials,
\* max_retries, retry_delay or the cached handle, and none makes a
\* connection attempt: the handle is the one the successful attempt of
\* _connect_to_jira returned, also after a call that failed or used all
\* its attempts.
C22_ClientIsImmutable ==
    [][ /\ ClientExists =>
            /\ ClientExists'
            /\ self' = self
            /\ connect_calls' = connect_calls
            /\ connect_trace' = connect_trace
        /\ (pc = "connect" /\ pc' = "ready") =>
            /\ Last(log').ok
            /\ jira_client' = Last(log').val
            /\ jira_client' \in Handles
      ]_vars

\* a create_jira_issue call used all its attempts on a client whose
\* connection had needed a retry, and the handle is still there
C22_Witness ==
    /\ ClientExists
    /\ op = "create_jira_issue"
    /\ outcome.kind = "raise"
    /\ Len(Attempts(log)) = max_retries + 1
    /\ max_retries > 0
    /\ connect_calls > 1
    /\ jira_client \in Handles

\* ---------------------------------------------------------------------
\* Termination
\* ---------------------------------------------------------------------

\* a retried call is in progress
CallInProgress == pc \in {"connect", "connect_sleep", "create", "create_sleep"}

\* the client under a service in which every attempt and every sleep ends
FairSpec == Spec /\ WF_vars(Next)

\* the batch run under a service in which every attempt and every sleep ends
FairBatchSpec == BatchSpec /\ WF_vars(BatchNext)

\* every retried call of the client ends
CallEnds == CallInProgress ~> ~CallInProgress

\* the batch run returns
BatchReturns == <>(run = "returned")

\* C23: every retried call ends after at most max_retries + 1 attempts, and
\* a batch run that has returned after reading its input list has visited
\* every entry of the list.
C23_TerminatesHavingVisitedAll ==
    /\ Len(Attempts(log)) <= max_retries + 1
    /\ (run = "returned" /\ user_stories # <<>>) =>
           entry_no = Len(user_stories)

\* ---------------------------------------------------------------------
\* The fields submitted to the service
\* ---------------------------------------------------------------------

\* C24: every attempt of a create_jira_issue call that passed validation
\* submits the configured project key and the summary, the description and
\* the issue type of the call with surrounding whitespace removed; there is
\* one submission per attempt, and every retry submits the same fields as
\* the first attempt.
C24_SubmittedFields ==
    op = "create_jira_issue" =>
        /\ Len(sent) = Len(Attempts(log))
        /\ sent # <<>> =>
               _validate_issue_input(args.summary, args.description,
                                     args.issuetype) = <<>>
        /\ \A i \in 1..Len(sent) :
               /\ sent[i].project = environ["JIRA_PROJECT_KEY"]
               /\ sent[i].summary = strip(args.summary)
               /\ sent[i].description = strip(args.description)
               /\ sent[i].issuetype = strip(args.issuetype)
               /\ sent[i] = sent[1]

\* a call whose summary has surrounding whitespace is at its third attempt
C24_Witness ==
    /\ op = "create_jira_issue"
    /\ Len(sent) = 3
    /\ args.summary # strip(args.summary)
    /\ sent[3].summary = strip(args.summary)

\* ---------------------------------------------------------------------
\* Retry state is local to one call
\* ---------------------------------------------------------------------

\* the entries in failed that used all the attempts of their call
Exhausted(res) ==
    SelectSeq(res.failed_issues,
              LAMBDA r : r.error.type = "JiraIssueCreationError")

\* C25: every create_jira_issue call starts its own retry loop: it starts
\* at attempt 0 with nothing tried and nothing slept, its first sleep is
\* retry_delay and each later one twice the one before, and it raises
\* JiraIssueCreationError only after max_retries + 1 attempts of its own,
\* whatever the connection and the earlier calls used. In a batch every
\* entry that failed with JiraIssueCreationError had its max_retries + 1
\* attempts and every created entry at least one: the attempts made on the
\* service are at least the sum of these.
C25_FreshRetryState ==
    [][ /\ submitted' # submitted =>
            /\ attempt' = 0
            /\ log' = <<>>
        /\ op' = "create_jira_issue" =>
            /\ attempt' = Len(Sleeps(log'))
            /\ Doubling(Delays(log'), retry_delay)
            /\ (outcome'.kind = "raise"
                    /\ outcome'.exc.type = "JiraIssueCreationError") =>
                   Len(Attempts(log')) = max_retries + 1
        /\ create_issue_calls'.made >=
               (max_retries + 1) * Len(Exhausted(results'))
                   + Len(results'.created_issues)
      ]_vars

\* the connection needed all its attempts, entry 1 used all its attempts
\* and failed, and the call for entry 2 is after its first sleep, which was
\* retry_delay
C25_Witness ==
    /\ Len(connect_trace) = 2 * max_retries + 1
    /\ Len(Exhausted(results)) = 1
    /\ results.failed_issues[1].entry = 1
    /\ run = "entry"
    /\ entry_no = 2
    /\ pc = "create"
    /\ attempt = 1
    /\ Delays(log) = <<retry_delay>>

\* ---------------------------------------------------------------------
\* Service calls and the created list
\* ---------------------------------------------------------------------

\* the create_issue calls made for the entry numbered n that returned
ReturnedFor(n) == SelectSeq(create_issue_calls.returned, LAMBDA k : k = n)

\* the create_issue calls that returned
ReturnedCalls == create_issue_calls.returned

\* C26: in a batch run at most one create_issue call returns per entry,
\* created has one record for every entry with a call that returned and no
\* other record, so the calls that returned are as many as created is long;
\* an entry in failed or skipped has no call that returned; and the run has
\* made at most max_retries + 1 calls for every entry it has visited and
\* not skipped.
C26_OneCreationPerEntry ==
    /\ Len(ReturnedCalls) = Len(results.created_issues)
    /\ \A n \in 1..Len(user_stories) :
           /\ Len(ReturnedFor(n)) <= 1
           /\ Count(CreatedKeys, n) = Len(ReturnedFor(n))
           /\ Count(FailedKeys, n) + Count(SkippedKeys, n) > 0 =>
                  ReturnedFor(n) = <<>>
    /\ create_issue_calls.made <=
           (max_retries + 1) * (entry_no - Len(results.skipped_issues))
    /\ create_issue_calls.made <=
           (max_retries + 1)
               * (Len(user_stories) - Len(results.skipped_issues))

\* the run has returned with one entry skipped, one failed after all its
\* attempts and one created at its second attempt
C26_Witness ==
    /\ run = "returned"
    /\ Len(results.skipped_issues) = 1
    /\ Len(Exhausted(results)) = 1
    /\ Len(results.created_issues) = 1
    /\ create_issue_calls.made = max_retries + 3
    /\ Last(create_issue_calls.returned) = 3

\* ---------------------------------------------------------------------
\* max_retries of any sign
\* ---------------------------------------------------------------------

\* how far below zero the max_retries of a client goes
MaxNegative == 1

\* max_retries as __init__ accepts it: any int, unchecked
AnyRetries == (0 - MaxNegative)..MaxRetries

\* the client built with DocToJira(max_retries, retry_delay) for
\* max_retries of any sign
AnyRetriesSpec == InitWith(AnyRetries) /\ [][Next]_vars

\* C27: for every max_retries, negative values included, a call of
\* _connect_to_jira or create_jira_issue that went through its retry loop
\* made at least one attempt and ended in one of two ways: it returned the
\* value of a successful attempt (a handle, an issue key) or it raised its
\* terminal error; it never returned without a value.
C27_AttemptsForAnyRetries ==
    RetriedCallDone =>
        /\ Len(Attempts(log)) >= 1
        /\ \/ /\ outcome.kind = "return"
              /\ outcome.val \in Handles \cup IssueKeys
              /\ outcome.val = Last(log).val
           \/ /\ outcome.kind = "raise"
              /\ outcome.exc.type = TerminalError

\* ---------------------------------------------------------------------
\* Blank entries and validation failures
\* ---------------------------------------------------------------------

\* the messages of the validator that a batch entry can fail with
BatchValidationMessages ==
    {"Summary cannot exceed 255 characters", "Issue type cannot be empty"}

\* C28: a visited entry (an object whose values are strings or absent) with
\* both user_story and deliverables absent or empty after trimming is in
\* skipped exactly once, with the reason "Missing or empty 'user_story'",
\* and in no other list; an entry with a blank user_story or blank
\* deliverables is never in failed; so every JiraValidationError in failed
\* belongs to an entry with both values present and carries only the
\* messages of a summary over 255 characters and of a blank issue type,
\* each exactly when the entry has that defect.
C28_BlankIsSkippedNotFailed ==
    /\ \A n \in Visited :
        LET e == user_stories[n]
        IN  (e.type = "dict" /\ Text(e.user_story) /\ Text(e.deliverables)
                 /\ Text(e.issue_type)) =>
                /\ (Blank(e.user_story) /\ Blank(e.deliverables)) =>
                       SkippedFor(n, "Missing or empty 'user_story'")
                /\ (Blank(e.user_story) \/ Blank(e.deliverables)) =>
                       Count(FailedKeys, n) = 0
    /\ \A k \in 1..Len(results.failed_issues) :
        LET r == results.failed_issues[k]
            e == user_stories[r.entry]
        IN  r.error.type = "JiraValidationError" =>
                /\ ~Blank(e.user_story) /\ ~Blank(e.deliverables)
                /\ r.error.errors # <<>>
                /\ Range(r.error.errors) \subseteq BatchValidationMessages
                /\ "Summary cannot exceed 255 characters"
                       \in Range(r.error.errors)
                   <=> Len(strip(e.user_story)) > SummaryLimit
                /\ "Issue type cannot be empty" \in Range(r.error.errors)
                   <=> (e.issue_type # NoKey /\ IsBlank(e.issue_type))

\* the entry over the limit with a blank issue type is in failed with both
\* messages, and the entry with nothing to submit after it is skipped
C28_Witness ==
    /\ run = "returned"
    /\ user_stories = LongBatch
    /\ Len(results.failed_issues) = 1
    /\ results.failed_issues[1].error.type = "JiraValidationError"
    /\ Len(results.failed_issues[1].error.errors) = 2
    /\ results.skipped_issues =
           <<Skipped(2, "Missing or empty 'user_story'")>>

\* ---------------------------------------------------------------------
\* run_jira_from_json never raises
\* ---------------------------------------------------------------------

\* the keys of the dict run_jira_from_json returns
Buckets == {"created_issues", "failed_issues", "skipped_issues"}

\* the exception of an entry that is no object ended the loop at that entry
StoppedAt(n) == n = entry_no /\ caught = "AttributeError"

\* the run has a next step to take (in the loop: a next entry, which
\* ProcessEntry takes whatever the entry is)
CanGoOn ==
    CASE run = "client" ->
             ENABLED (RunConstruct \/ RunConnectSucceeds \/ RunConnectSleeps)
      [] run = "probe" -> ENABLED RunTestConnection
      [] run = "project" -> ENABLED RunGetProjectInfo
      [] run = "read" -> ENABLED ReadInput
      [] run = "loop" -> next_turn /\ entry_no < Len(user_stories)
      [] run = "entry" -> ENABLED (RunCreateSucceeds \/ RunCreateSleeps)
      [] OTHER -> FALSE

\* C29: run_jira_from_json never raises to its caller. Whatever the
\* constructor, the connection test, the reading of the input and the
\* entries do, the run ends by returning: an exception that reaches the
\* outer handlers ends the run with `return results`, an exception of the
\* constructor with the three empty lists, and a run ends nowhere else.
\* What is returned has the three lists created_issues, failed_issues and
\* skipped_issues, with records of visited entries only and with the
\* outcome of every entry visited before the run stopped.
C29_AlwaysReturnsResults ==
    /\ DOMAIN results = Buckets
    /\ caught # NoValue => run = "returned"
    /\ (op = "__init__" /\ outcome.kind = "raise") =>
           run = "returned" /\ results = NoResults
    /\ run # "returned" => CanGoOn
    /\ run = "returned" =>
           /\ \A n \in Range(CreatedKeys) \cup Range(FailedKeys)
                          \cup Range(SkippedKeys) : n \in Visited
           /\ \A n \in Visited : HasOutcome(n) \/ StoppedAt(n)

\* the run has returned after an exception ended the loop at entry 2, with
\* the failure of entry 1 in the results
C29_Witness ==
    /\ run = "returned"
    /\ caught = "AttributeError"
    /\ entry_no = 2
    /\ Len(results.failed_issues) = 1
    /\ results.failed_issues[1].entry = 1
    /\ ~HasOutcome(2)

\* ---------------------------------------------------------------------
\* The connection test and the project info before the entries
\* ---------------------------------------------------------------------

\* the batch run has read no input and recorded nothing
NothingProcessed ==
    /\ user_stories = <<>>
    /\ entry_no = 0
    /\ results = NoResults
    /\ submitted = <<>>
    /\ create_issue_calls = NoCalls

\* C30: the batch run tests the connection and fetches the project info
\* before it reads the input. When test_connection returns False the run
\* returns at once: the input is not read whatever it holds, no entry is
\* processed, no create_jira_issue and no create_issue call is made and the
\* three lists returned are empty, and nothing happens after the return.
\* When it returns True the run fetches the project info and goes on to
\* read the input whether get_project_info returned a dict or None; the
\* fetch changes neither the client nor anything the entries are processed
\* with.
C30_ProbeGatesTheBatch ==
    [][ /\ run = "probe" =>
            /\ op' = "test_connection"
            /\ NothingProcessed /\ NothingProcessed'
            /\ run' = IF outcome' = Returned("True") THEN "project"
                      ELSE "returned"
        /\ run = "project" =>
            /\ op' = "get_project_info"
            /\ outcome'.kind = "return"
            /\ run' = "read"
            /\ NothingProcessed /\ NothingProcessed'
            /\ caught' = caught
            /\ self' = self
            /\ pc' = pc
        /\ run = "returned" => UNCHANGED vars
      ]_vars

\* test_connection returned False and the run has returned with nothing
\* read and nothing recorded
C30_Witness ==
    /\ run = "returned"
    /\ op = "test_connection"
    /\ outcome = Returned("False")
    /\ NothingProcessed
    /\ caught = NoValue

\* ---------------------------------------------------------------------
\* validate_json_structure and the __main__ block
\* ---------------------------------------------------------------------

\* mutant: only user_story is required
required_fields_user_story == <<"user_story">>

\* required_fields = ['user_story', 'deliverables']
required_fields == <<"user_story", "deliverables">>

\* [field for field in required_fields if not entry.get(field, "").strip()]
missing_fields(entry) ==
    SelectSeq(required_fields,
              LAMBDA field : strip(get(entry, field, <<>>)) = <<>>)

\* .strip() raises AttributeError while missing_fields is built: a required
\* field of the dict is null
missing_fields_raises(entry) ==
    /\ entry.type = "dict"
    /\ \E k \in 1..Len(required_fields) : entry[required_fields[k]] = NoneVal

\* the entry adds one to valid_entries
entry_is_valid(entry) ==
    /\ entry.type = "dict"
    /\ ~missing_fields_raises(entry)
    /\ missing_fields(entry) = <<>>

\* how many entries the loop of validate_json_structure gets through: all
\* of them, or those before the first one that raises
entries_checked(data) ==
    LET raising == {k \in 1..Len(data) : missing_fields_raises(data[k])}
    IN  IF raising = {} THEN Len(data)
        ELSE (CHOOSE k \in raising : \A j \in raising : k <= j) - 1

\* valid_entries when the loop ends
valid_entries(data) ==
    Cardinality({k \in 1..entries_checked(data) : entry_is_valid(data[k])})

\* validate_json_structure(json_file_path) on a file that holds f:
\* valid_entries and the value returned
validate_json_structure(f) ==
    IF f.kind # "list"
    THEN [valid_entries |-> 0, valid |-> "False"]
    ELSE IF entries_checked(f.list) < Len(f.list)
    THEN [valid_entries |-> valid_entries(f.list), valid |-> "False"]
    ELSE [valid_entries |-> valid_entries(f.list),
          valid |-> IF valid_entries(f.list) > 0 THEN "True" ELSE "False"]

\* the __main__ block starts: the file user_stories.json holds one of the
\* file contents, nothing has been called
MainInit ==
    /\ NewClient({DefaultMaxRetries}, {DefaultRetryDelay})
    /\ run = "validate"
    /\ user_stories = <<>>
    /\ entry_no = 0
    /\ results = NoResults
    /\ submitted = <<>>
    /\ caught = NoValue
    /\ create_issue_calls = NoCalls
    /\ \E f \in FileContents :
           preflight = [file |-> f, valid_entries |-> 0, valid |-> "None"]

\* `if validate_json_structure(user_story_json):` then run_jira_from_json
\* is called, else the block ends
ValidateJsonStructure ==
    /\ run = "validate"
    /\ LET v == validate_json_structure(preflight.file)
       IN  /\ preflight' = [file |-> preflight.file,
                            valid_entries |-> v.valid_entries,
                            valid |-> v.valid]
           /\ run' = IF v.valid = "True" THEN "client" ELSE "not_started"
    /\ UNCHANGED <<config, creds, jira_client, pc, op, attempt, args, log,
                   outcome, connect_calls, connect_trace, sent,
                   user_stories, entry_no, results, submitted, caught,
                   create_issue_calls>>

\* run_jira_from_json reads the file validate_json_structure has read
MainReadInput == ReadInputOf(preflight.file)

MainNext ==
    \/ ValidateJsonStructure
    \/ RunConstruct
    \/ RunConnectSucceeds
    \/ RunConnectFails
    \/ RunConnectSleeps
    \/ RunTestConnection
    \/ RunGetProjectInfo
    \/ MainReadInput
    \/ ProcessEntry
    \/ RunCreateSucceeds
    \/ RunCreateFails
    \/ RunCreateSleeps

MainSpec == MainInit /\ [][MainNext]_vars

\* the file holds a list of objects whose user_story and deliverables are
\* strings or absent
RecordsWithText(f) ==
    /\ f.kind = "list"
    /\ \A k \in 1..Len(f.list) :
           /\ f.list[k].type = "dict"
           /\ Text(f.list[k].user_story)
           /\ Text(f.list[k].deliverables)

\* the issue_type of every entry is a string or absent as well
IssueTypesWithText(f) ==
    \A k \in 1..Len(f.list) : Text(f.list[k].issue_type)

\* the entry has both values non-empty after trimming
Usable(e) == ~Blank(e.user_story) /\ ~Blank(e.deliverables)

\* validate_json_structure and run_jira_from_json agree on the entries:
\* valid_entries counts the entries with both values non-empty after
\* trimming, every entry the run has visited is in skipped exactly when it
\* was not counted, True is returned exactly when an entry was counted, and
\* run_jira_from_json is called exactly after True
PreflightAgrees ==
    LET f == preflight.file
    IN  /\ preflight.valid = "None" <=> run = "validate"
        /\ preflight.valid = "False" <=> run = "not_started"
        /\ (preflight.valid # "None" /\ RecordsWithText(f)) =>
               /\ preflight.valid_entries =
                      Cardinality({k \in 1..Len(f.list) : Usable(f.list[k])})
               /\ preflight.valid = "True" <=> preflight.valid_entries > 0
               /\ user_stories # <<>> =>
                      /\ user_stories = f.list
                      /\ \A n \in Visited :
                             entry_is_valid(user_stories[n])
                                 <=> Count(SkippedKeys, n) = 0

\* the run has read the list and gone through all of it
ListProcessed ==
    /\ run = "returned"
    /\ user_stories # <<>>
    /\ entry_no = Len(user_stories)

\* C31 as claimed: for a list of objects whose user_story and deliverables
\* are strings or absent, the validation and the run agree on the entries,
\* and a run that was started and has gone through the list has submitted
\* at least one entry to create_jira_issue.
C31_StartedMeansSubmitted ==
    /\ PreflightAgrees
    /\ (RecordsWithText(preflight.file) /\ ListProcessed) =>
           submitted # <<>>

\* C31: for a list of objects whose user_story and deliverables are strings
\* or absent, validate_json_structure counts an entry exactly when
\* run_jira_from_json does not skip it, it returns True exactly when it
\* counted an entry, and run_jira_from_json is called exactly after True;
\* when the issue_type values are strings or absent too, a run that has
\* gone through the list has submitted at least one entry to
\* create_jira_issue.
C31_PreflightAgreesWithBatch ==
    /\ PreflightAgrees
    /\ (RecordsWithText(preflight.file)
            /\ IssueTypesWithText(preflight.file) /\ ListProcessed) =>
           submitted # <<>>

\* the validation counted one of two entries and the run skipped the other
\* one and submitted the one counted
C31_Witness ==
    /\ preflight.valid = "True"
    /\ preflight.valid_entries = 1
    /\ Len(preflight.file.list) = 2
    /\ ListProcessed
    /\ SkippedKeys = <<1>>
    /\ Len(submitted) = 1
    /\ submitted[1].entry = 2

====
